---------------------------- MODULE Spec2Model ----------------------------
(***************************************************************************)
(* A model of the voxel world of src/chunk.js and src/world.js: the Chunk  *)
(* block buffer with its bounded accessors, terrain generation and face-   *)
(* culled meshing, and the World with its chunk, mesh and buffer maps,     *)
(* its render list and the WebGL buffer handles it owns.                   *)
(***************************************************************************)
EXTENDS Integers, Sequences, FiniteSets, TLC

(***************************************************************************)
(* Bounds of the model.                                                    *)
(*                                                                         *)
(* chunkSize is the edge of a chunk.  World sets it to 16 (world.js:7) and *)
(* Chunk takes it as a constructor argument (chunk.js:4); the model runs   *)
(* the same code on a smaller cube.  The coordinate operators take the     *)
(* size as a parameter, so they can also be evaluated at 16.               *)
(***************************************************************************)
chunkSize == 3
\* number of World operations in one behaviour
MaxOps == 3
\* number of Chunk operations in one behaviour of the stand-alone chunk
MaxChunkOps == 2
\* number of World operations in one behaviour of the frame loop
MaxFrameOps == 5
\* number of frames, clicks and slider moves in one behaviour of the renderer
MaxRendererOps == 4
\* number of World operations in one behaviour of the settings menu
MaxDistanceOps == 5

NULL == "null"

(***************************************************************************)
(* Chunk: block types (chunk.js:7-14).                                     *)
(***************************************************************************)
AIR == 0
GRASS == 1
DIRT == 2
STONE == 3
WATER == 4
SAND == 5

\* an element of a Uint8Array keeps the value modulo 2^8 (chunk.js:6, 55)
ToUint8(v) == v % 256

Min(a, b) == IF a < b THEN a ELSE b
Max(a, b) == IF a > b THEN a ELSE b

\* chunk.js:42 and chunk.js:51: the range test shared by both accessors
OutOfBounds(size, x, y, z) ==
    x < 0 \/ y < 0 \/ z < 0 \/ x >= size \/ y >= size \/ z >= size

\* chunk.js:45 and chunk.js:54: the position of a voxel in the flat buffer
BadBlockIndex(size, x, y, z) == x + (y * size) + (z * size)
BlockIndex(size, x, y, z) == x + (y * size) + (z * size * size)

\* chunk.js:6: new Uint8Array(size^3) is zero-filled
EmptyBlocks(size) == [i \in 0 .. (size * size * size - 1) |-> 0]

\* chunk.js:41-47
BadChunkGetBlock(blocks, size, x, y, z) ==
    IF x < 0 \/ y < 0 \/ z < 0 \/ x > size \/ y > size \/ z > size
    THEN AIR
    ELSE LET i == BlockIndex(size, x, y, z)
         IN IF i \in DOMAIN blocks THEN blocks[i] ELSE AIR
ChunkGetBlock(blocks, size, x, y, z) ==
    IF OutOfBounds(size, x, y, z)
    THEN AIR
    ELSE blocks[BlockIndex(size, x, y, z)]

\* chunk.js:50-56
BadChunkSetBlock(blocks, size, x, y, z, blockType) ==
    LET i == BlockIndex(size, x, y, z)
    IN IF i \in DOMAIN blocks
       THEN [blocks EXCEPT ![i] = ToUint8(blockType)]
       ELSE blocks
ChunkSetBlock(blocks, size, x, y, z, blockType) ==
    IF OutOfBounds(size, x, y, z)
    THEN blocks
    ELSE [blocks EXCEPT ![BlockIndex(size, x, y, z)] = ToUint8(blockType)]

(***************************************************************************)
(* Math.random.  The engine's generator has hidden state: the stream of    *)
(* values a page will draw is fixed when it loads, and each call takes the *)
(* next one.  Draw(k, i) is the numerator over 16 of the i-th value of     *)
(* stream k, so every value lies in [0, 1).  Stream 0 is constantly 0.     *)
(* The other streams repeat after 120 values, three runs of                *)
(* generateTerrain: within one run every cave draws the same centre, on    *)
(* the floor of the chunk, and the smallest radius, and the centre moves   *)
(* from run to run.  Stream 2, which the stand-alone Chunk may also be     *)
(* given, makes every cave the same one, centred above the floor.          *)
(***************************************************************************)
Streams == {0, 1}
ChunkStreams == Streams \cup {2}
\* the values stream 2 gives for caveX, caveY, caveZ and caveSize
RaisedCave == << 12, 8, 9, 0 >>
Draw(k, i) ==
    IF k = 2
    THEN RaisedCave[(i % 4) + 1]
    ELSE IF i % 4 \in {0, 2}
         THEN (k * ((i \div 40) % 3) * 12) % 16
         ELSE 0
\* Math.floor(Math.random() * n) for the draw d/16 and n = num/den
FloorScaled(d, num, den) == (d * num) \div (16 * den)
\* the position in the stream after n more values were drawn
Advance(at, n) == (at + n) % 120

(***************************************************************************)
(* Chunk.generateTerrain (chunk.js:59-125).                                *)
(***************************************************************************)
\* Math.floor(2*sin(x/3) * 10^6) and Math.floor(2*cos(z/3) * 10^6), x, z < 16
Sin2 == << 0, 654389, 1236739, 1682941, 1943875, 1990815, 1818594, 1446171,
           914545, 282240, -381136, -1002555, -1513605, -1858030, -1997910,
           -1917849 >>
Cos2 == << 2000000, 1889913, 1571774, 1080604, 470475, -191448, -832294,
           -1381517, -1778654, -1979985, -1963349, -1730574, -1307288,
           -740087, -91413, 567324 >>

\* chunk.js:69-70: the clamped column height
HeightMap(size, x, z) ==
    LET height == ((Sin2[x + 1] + Cos2[z + 1]) \div 1000000) + (size \div 2)
    IN Max(1, Min(size - 1, height))

\* chunk.js:80-98: the block the column fill leaves at (x, y, z)
ColumnBlock(size, x, y, z) ==
    LET height == HeightMap(size, x, z)
    IN IF y < height
       THEN IF y = height - 1 THEN GRASS
            ELSE IF y > height - 4 THEN DIRT
            ELSE STONE
       ELSE IF 2 * y < size - 4 THEN WATER   \* y < size/2 - 2
       ELSE AIR

\* chunk.js:61-100: fill with air, then the heightmap columns and the water
TerrainFill(size) ==
    [i \in 0 .. (size * size * size - 1) |->
        LET x == i % size
            y == (i \div size) % size
            z == i \div (size * size)
        IN ColumnBlock(size, x, y, z)]

\* chunk.js:104-107: the four draws of cave i, taken from position at + 4*i
Cave(size, k, at, i) ==
    [ caveX    |-> FloorScaled(Draw(k, at + 4 * i), size, 1),
      caveY    |-> FloorScaled(Draw(k, at + 4 * i + 1), size, 2),
      caveZ    |-> FloorScaled(Draw(k, at + 4 * i + 2), size, 1),
      caveSize |-> FloorScaled(Draw(k, at + 4 * i + 3), 3, 1) + 2 ]

\* chunk.js:110-123: one sphere carved to air
CarveCave(blocks, size, c) ==
    [i \in DOMAIN blocks |->
        LET bx == i % size
            by == (i \div size) % size
            bz == i \div (size * size)
            x == bx - c.caveX
            y == by - c.caveY
            z == bz - c.caveZ
        IN IF x * x + y * y + z * z <= c.caveSize * c.caveSize
           THEN AIR
           ELSE blocks[i]]

\* chunk.js:103: caves i .. 9, in order
RECURSIVE CarveCaves(_, _, _, _, _)
CarveCaves(blocks, size, k, at, i) ==
    IF i >= 10
    THEN blocks
    ELSE CarveCaves(CarveCave(blocks, size, Cave(size, k, at, i)),
                    size, k, at, i + 1)

\* the number of Math.random calls of one generateTerrain
DrawsPerTerrain == 40

\* the array that holds values[0] .. values[len - 1], element by element
ArrayFrom(values, len) ==
    LET filled[n \in 0 .. len] ==
            IF n = 0
            THEN << >>
            ELSE filled[n - 1] @@ ((n - 1) :> values[n - 1])
    IN filled[len]

\* chunk.js:4: the size of a Chunk constructed without an argument, which
\* is also World.chunkSize (world.js:7)
DefaultSize == 16
\* chunk.js:107: the largest caveSize, Math.floor(Math.random() * 3) + 2
MaxCaveSize == 4
\* chunk.js:75-99: the voxels of layer y that the column fill leaves non-air
LayerFill(size, y) ==
    Cardinality({ c \in (0 .. (size - 1)) \X (0 .. (size - 1)) :
                    ColumnBlock(size, c[1], y, c[2]) # AIR })
\* chunk.js:110-113: the most voxels one cave can carve in a layer dy away
\* from its centre, the points of the largest sphere that lie in that layer
CaveReach(dy) ==
    Cardinality({ d \in (-MaxCaveSize .. MaxCaveSize) \X (-MaxCaveSize .. MaxCaveSize) :
                    d[1] * d[1] + dy * dy + d[2] * d[2] <= MaxCaveSize * MaxCaveSize })
\* both, computed once for the default size
DefaultLayerFill ==
    ArrayFrom([y \in 0 .. (DefaultSize - 1) |-> LayerFill(DefaultSize, y)],
              DefaultSize)
CaveReaches ==
    ArrayFrom([dy \in 0 .. (DefaultSize - 1) |-> CaveReach(dy)], DefaultSize)
\* chunk.js:103-124: some choice of left caves with centres at height cy or
\* above may carve every layer empty, when those below cy have carved at
\* most carved[y] voxels of layer y.  caveY is below size / 2 (chunk.js:105).
RECURSIVE CanCarveAll(_, _, _)
CanCarveAll(cy, left, carved) ==
    IF 2 * cy >= DefaultSize
    THEN /\ left = 0
         /\ \A y \in 0 .. (DefaultSize - 1) : carved[y] >= DefaultLayerFill[y]
    ELSE \E n \in 0 .. left :
            CanCarveAll(cy + 1, left - n,
                        [y \in 0 .. (DefaultSize - 1) |->
                            carved[y] + n * CaveReaches[IF y < cy THEN cy - y
                                                        ELSE y - cy]])
\* chunk.js:103: whether ten caves can leave a chunk of the default size
\* without any block
DefaultTerrainCanBeEmpty ==
    CanCarveAll(0, 10, [y \in 0 .. (DefaultSize - 1) |-> 0])

\* chunk.js:59-125.  The three arguments World passes (world.js:45) have no
\* parameter to bind to; the result is decided by the values Math.random
\* gives from position at of stream k on.
Terrain(size, k, at) ==
    ArrayFrom(CarveCaves(TerrainFill(size), size, k, at, 0), size * size * size)
\* the buffers a chunk of edge chunkSize can be given, computed once: for
\* each stream, those of the runs that start at 0, 40 and 80
RunsOf(k) ==
    << Terrain(chunkSize, k, 0), Terrain(chunkSize, k, DrawsPerTerrain),
       Terrain(chunkSize, k, 2 * DrawsPerTerrain) >>
Terrains == (0 :> RunsOf(0)) @@ (1 :> RunsOf(1)) @@ (2 :> RunsOf(2))
GenerateTerrain(size, chunkWorldX, chunkWorldZ, sd, k, at) ==
    IF size = chunkSize /\ at % DrawsPerTerrain = 0
    THEN Terrains[k][(at \div DrawsPerTerrain) + 1]
    ELSE Terrain(size, k, at)

\* chunk.js:61-124 by voxel: the value generateTerrain writes last at
\* (x, y, z), air where a cave covers the voxel and the column fill elsewhere
TerrainAt(size, k, at, x, y, z) ==
    IF \E i \in 0 .. 9 :
          LET c == Cave(size, k, at, i)
          IN (x - c.caveX) * (x - c.caveX) + (y - c.caveY) * (y - c.caveY)
             + (z - c.caveZ) * (z - c.caveZ) <= c.caveSize * c.caveSize
    THEN AIR
    ELSE ColumnBlock(size, x, y, z)


(***************************************************************************)
(* Chunk.buildMesh (chunk.js:128-185) and addBlockFace (chunk.js:188-272). *)
(* A mesh is kept as the emitted faces in emission order, each with its    *)
(* voxel, its face number and the block type that colours it; the         *)
(* position, colour and index arrays are functions of that sequence.      *)
(***************************************************************************)
\* chunk.js:136-143
faceDirections ==
    << <<0, 1, 0>>, <<0, 0, 1>>, <<1, 0, 0>>,
       <<0, 0, -1>>, <<-1, 0, 0>>, <<0, -1, 0>> >>

\* new Uint16Array(indices) keeps each index modulo 2^16 (chunk.js:183)
BadToUint16(v) == v % 32768
ToUint16(v) == v % 65536

\* chunk.js:165: the test that decides whether a face is emitted
BadFaceVisible(blockType, neighbor) == neighbor = AIR \/ neighbor = WATER
FaceVisible(blockType, neighbor) ==
    neighbor = AIR \/ (neighbor = WATER /\ blockType # WATER)

\* chunk.js:268-271: the six indices of the quad whose first vertex is
\* vertexOffset
BadFaceIndices(vertexOffset) ==
    << vertexOffset, vertexOffset + 1, vertexOffset + 2,
       vertexOffset, vertexOffset + 2, vertexOffset + 4 >>
FaceIndices(vertexOffset) ==
    << vertexOffset, vertexOffset + 1, vertexOffset + 2,
       vertexOffset, vertexOffset + 2, vertexOffset + 3 >>

\* chunk.js:146-157: the loops over x, y, z and face visit the pairs of a
\* voxel and a face in the order of n = ((x * size + y) * size + z) * 6 + face;
\* the face iteration n would emit, with the block type that colours it
\* (chunk.js:149, 168)
FaceOf(blocks, size, n) ==
    LET x == n \div (6 * size * size)
        y == (n \div (6 * size)) % size
        z == (n \div 6) % size
    IN [ x |-> x, y |-> y, z |-> z, face |-> n % 6,
         blockType |-> ChunkGetBlock(blocks, size, x, y, z) ]

\* chunk.js:152-165: the iteration of face f emits it
BadEmits(blocks, size, f) ==
    LET dir == faceDirections[f.face + 1]
        neighbor == ChunkGetBlock(blocks, size,
                                  f.x + dir[1], f.y + dir[2], f.z + dir[3])
    IN /\ f.blockType # AIR
       /\ ~OutOfBounds(size, f.x + dir[1], f.y + dir[2], f.z + dir[3])
       /\ FaceVisible(f.blockType, neighbor)
Emits(blocks, size, f) ==
    LET dir == faceDirections[f.face + 1]
        neighbor == ChunkGetBlock(blocks, size,
                                  f.x + dir[1], f.y + dir[2], f.z + dir[3])
    IN f.blockType # AIR /\ FaceVisible(f.blockType, neighbor)

\* chunk.js:128-185: the faces emitted, in order
BuildMesh(blocks, size) ==
    SelectSeq([n \in 1 .. (size * size * size * 6) |->
                  FaceOf(blocks, size, n - 1)],
              LAMBDA f : Emits(blocks, size, f))

\* chunk.js:172-173, 183, 268-271: the index array of a mesh; the i-th face
\* emitted is given vertexCount = 4 * (i - 1)
MeshIndices(faces) ==
    [j \in 1 .. (6 * Len(faces)) |->
        ToUint16(FaceIndices(4 * ((j - 1) \div 6))[((j - 1) % 6) + 1])]

\* chunk.js:17-24: blockColors, in tenths
blockColors ==
    << <<0, 0, 0, 0>>, <<4, 8, 2, 10>>, <<6, 3, 1, 10>>, <<5, 5, 5, 10>>,
       <<0, 0, 8, 6>>, <<8, 8, 2, 10>> >>
\* chunk.js:27-34: faceShading, in tenths
faceShading == << 10, 8, 8, 6, 6, 5 >>

\* chunk.js:198-252: the four vertices of each face, as what is added to
\* (worldX, worldY, worldZ)
faceVertices ==
    << << <<0, 1, 0>>, <<1, 1, 0>>, <<1, 1, 1>>, <<0, 1, 1>> >>,
       << <<0, 0, 1>>, <<1, 0, 1>>, <<1, 1, 1>>, <<0, 1, 1>> >>,
       << <<1, 0, 0>>, <<1, 0, 1>>, <<1, 1, 1>>, <<1, 1, 0>> >>,
       << <<1, 0, 0>>, <<0, 0, 0>>, <<0, 1, 0>>, <<1, 1, 0>> >>,
       << <<0, 0, 0>>, <<0, 0, 1>>, <<0, 1, 1>>, <<0, 1, 0>> >>,
       << <<0, 0, 0>>, <<1, 0, 0>>, <<1, 0, 1>>, <<0, 0, 1>> >> >>

\* chunk.js:190-192: v - this.size / 2.  size may be odd, so positions are
\* kept in halves: the value here is twice the coordinate.
WorldCoord(size, v) == 2 * v - size

\* chunk.js:255-256: the twelve position components of a face, in halves
FacePositions(size, f) ==
    [j \in 1 .. 12 |->
        LET vertex == faceVertices[f.face + 1][((j - 1) \div 3) + 1]
            axis == ((j - 1) % 3) + 1
            local == IF axis = 1 THEN f.x ELSE IF axis = 2 THEN f.y ELSE f.z
        IN WorldCoord(size, local) + 2 * vertex[axis]]

\* chunk.js:168-169, 259-264: the sixteen colour components of a face, in
\* hundredths: the shaded red, green and blue and the alpha of its block
FaceColors(f) ==
    [j \in 1 .. 16 |->
        LET baseColor == blockColors[f.blockType + 1]
            shade == faceShading[f.face + 1]
            i == ((j - 1) % 4) + 1
        IN IF i = 4 THEN baseColor[4] * 10 ELSE baseColor[i] * shade]

\* chunk.js:180-184: the three arrays buildMesh returns, with the faces
\* they were made from
Mesh(blocks, size) ==
    LET faces == BuildMesh(blocks, size)
    IN [ faces     |-> faces,
         positions |-> [j \in 1 .. (12 * Len(faces)) |->
                          FacePositions(size, faces[((j - 1) \div 12) + 1])
                              [((j - 1) % 12) + 1]],
         colors    |-> [j \in 1 .. (16 * Len(faces)) |->
                          FaceColors(faces[((j - 1) \div 16) + 1])
                              [((j - 1) % 16) + 1]],
         indices   |-> MeshIndices(faces) ]

(***************************************************************************)
(* World: chunk keys (world.js:32-34, 99-102).  A key is the text          *)
(* "<chunkX>,<chunkZ>", kept as a sequence of characters.                  *)
(***************************************************************************)
Digits == << "0", "1", "2", "3", "4", "5", "6", "7", "8", "9" >>

RECURSIVE NatToStr(_)
NatToStr(n) ==
    IF n < 10 THEN << Digits[n + 1] >>
    ELSE Append(NatToStr(n \div 10), Digits[(n % 10) + 1])

\* the text a template literal gives an integer
IntToStr(n) == IF n < 0 THEN << "-" >> \o NatToStr(-n) ELSE NatToStr(n)

\* world.js:32-34
getChunkKey(chunkX, chunkZ) == IntToStr(chunkX) \o << "," >> \o IntToStr(chunkZ)

DigitValue(c) == CHOOSE d \in 0 .. 9 : Digits[d + 1] = c

RECURSIVE StrToNat(_)
StrToNat(s) ==
    IF s = << >> THEN 0
    ELSE StrToNat(SubSeq(s, 1, Len(s) - 1)) * 10 + DigitValue(s[Len(s)])

\* Number(text) of the text of an integer
StrToInt(s) ==
    IF s # << >> /\ s[1] = "-" THEN -StrToNat(Tail(s)) ELSE StrToNat(s)

\* world.js:100: key.split(',').map(Number)
SplitKey(key) ==
    LET comma == CHOOSE i \in 1 .. Len(key) : key[i] = ","
    IN << StrToInt(SubSeq(key, 1, comma - 1)),
          StrToInt(SubSeq(key, comma + 1, Len(key))) >>

\* world.js:240-241, 261-262, 62-63: Math.floor(w / size)
BadChunkCoord(w, size) ==
    IF w < 0 THEN -((-w) \div size) ELSE w \div size
ChunkCoord(w, size) == w \div size

\* world.js:244-246, 265-267: Math.floor(w) - chunk * size
BlockCoord(w, size) == w - ChunkCoord(w, size) * size


(***************************************************************************)
(* State.                                                                  *)
(***************************************************************************)
VARIABLES
    programInfo,    \* World.programInfo: NULL or the shader program info
    seed,           \* World.seed
    renderDistance, \* World.renderDistance
    chunks,         \* World.chunks: key -> block buffer of the chunk
    chunkMeshes,    \* World.chunkMeshes: key -> mesh object
    chunkBuffers,   \* World.chunkBuffers: key -> buffer handles, index count
    loadedChunks,   \* World.loadedChunks: the render list
    glBuffers,      \* the WebGL buffers created and not deleted
    nextBuffer,     \* the next fresh WebGL buffer handle
    nextMesh,       \* the next fresh mesh object identity
    rng,            \* the stream Math.random draws from
    drawn,          \* the position in that stream
    ops,            \* World operations performed so far
    lastOp,         \* the last World operation, its arguments and result
    chunk,          \* the block buffer of a stand-alone Chunk
    stored,         \* history: the value last written at each voxel of it
    generated,      \* history: generateTerrain arguments -> buffer produced
    chunkOps,       \* operations performed on the stand-alone Chunk
    lastChunkOp     \* the last operation on the stand-alone Chunk

worldVars == << programInfo, seed, renderDistance, chunks, chunkMeshes,
                chunkBuffers, loadedChunks, glBuffers, nextBuffer, nextMesh,
                rng, drawn, ops, lastOp >>
chunkVars == << chunk, stored, generated, chunkOps, lastChunkOp >>
vars == << programInfo, seed, renderDistance, chunks, chunkMeshes,
           chunkBuffers, loadedChunks, glBuffers, nextBuffer, nextMesh,
           rng, drawn, ops, lastOp, chunk, stored, generated, chunkOps, lastChunkOp >>

(***************************************************************************)
(* Inputs.                                                                 *)
(***************************************************************************)
PROGRAM == "programInfo"
\* the values World.seed may take (world.js:16)
Seeds == {42}
\* renderDistance arguments of the constructor (world.js:4)
InitDistances == {1}
\* arguments of setRenderDistance
DistanceInputs == {0, 2}
\* camera positions handed to updateChunks
CameraPositions == { <<0, 0, 0>>, <<-1, 0, chunkSize>> }
\* chunk coordinates handed to generateChunk
GenCoords == { <<0, 0>>, <<-1, 0>> }
\* world coordinates handed to getBlock: a voxel on the x and z minimum
\* edges of chunk (0,0), one with negative x and z on the x and z maximum
\* edges of chunk (-1,-1), and one above the world
BlockCoords == { <<0, 1, 0>>, <<-1, 1, -1>>, <<0, chunkSize, 0>> }
\* arguments handed to setBlock: those coordinates and an interior voxel of
\* chunk (0,0), with a block placed and a block removed
Edits ==
    { <<0, 1, 0, STONE>>, <<0, 1, 0, AIR>>, <<-1, 1, -1, STONE>>,
      <<1, 1, 1, STONE>>, <<0, chunkSize, 0, STONE>> }
BlockTypes == {AIR, GRASS, DIRT, STONE, WATER, SAND}

(***************************************************************************)
(* The World's maps as one record, threaded through the steps of a call.   *)
(***************************************************************************)
TheWorld ==
    [ chunks |-> chunks, chunkMeshes |-> chunkMeshes,
      chunkBuffers |-> chunkBuffers, glBuffers |-> glBuffers,
      nextBuffer |-> nextBuffer, nextMesh |-> nextMesh, drawn |-> drawn ]

\* Map.set(key, value)
MapSet(map, key, value) == (key :> value) @@ map
\* Map.delete(key)
MapDelete(map, key) == [k \in DOMAIN map \ {key} |-> map[k]]

\* world.js:37-52.  new Chunk(size) runs generateTerrain once (chunk.js:37)
\* and world.js:45 runs it again; the buffer kept is the second result.
BadGenerateChunk(w, sd, chunkX, chunkZ, k) ==
    [w EXCEPT
       !.chunks = MapSet(@, getChunkKey(chunkX, chunkZ),
                         GenerateTerrain(chunkSize, chunkX, chunkZ, sd, k,
                                         Advance(w.drawn, DrawsPerTerrain))),
       !.drawn = Advance(@, 2 * DrawsPerTerrain)]
GenerateChunk(w, sd, chunkX, chunkZ, k) ==
    LET key == getChunkKey(chunkX, chunkZ)
    IN IF key \notin DOMAIN w.chunks
       THEN [w EXCEPT
               !.chunks = MapSet(@, key,
                                 GenerateTerrain(chunkSize, chunkX, chunkZ, sd, k,
                                                 Advance(w.drawn,
                                                         DrawsPerTerrain))),
               !.drawn = Advance(@, 2 * DrawsPerTerrain)]
       ELSE w

\* chunk.buildMesh() on a chunk of the World.  The mesh is a function of the
\* blocks alone, so the meshes of the buffers generateTerrain can produce
\* are computed once and looked up; any other buffer is meshed in place.
MeshesOf(k) ==
    << BuildMesh(Terrains[k][1], chunkSize), BuildMesh(Terrains[k][2], chunkSize),
       BuildMesh(Terrains[k][3], chunkSize) >>
TerrainMeshes == (0 :> MeshesOf(0)) @@ (1 :> MeshesOf(1))
ChunkBuildMesh(blocks) ==
    IF \E k \in Streams, run \in 1 .. 3 : blocks = Terrains[k][run]
    THEN LET at == CHOOSE at \in Streams \X (1 .. 3) :
                       blocks = Terrains[at[1]][at[2]]
         IN TerrainMeshes[at[1]][at[2]]
    ELSE BuildMesh(blocks, chunkSize)

\* chunk.buildMesh() gives a new object each time: the mesh with a fresh id
NewMesh(w, key) ==
    [id |-> w.nextMesh, faces |-> ChunkBuildMesh(w.chunks[key])]

\* world.js:91-92, 280-281, 341-342: build the mesh and store it
BadSetChunkMesh(w, key) ==
    IF key \in DOMAIN w.chunkMeshes
    THEN w
    ELSE [w EXCEPT !.chunkMeshes = MapSet(@, key, NewMesh(w, key)),
                   !.nextMesh = @ + 1]
SetChunkMesh(w, key) ==
    [w EXCEPT !.chunkMeshes = MapSet(@, key, NewMesh(w, key)),
              !.nextMesh = @ + 1]

\* world.js:129-157
BadCreateChunkBuffers(w, prog, chunkKey, mesh) ==
    [w EXCEPT
       !.glBuffers = @ \cup {w.nextBuffer, w.nextBuffer + 1, w.nextBuffer + 2},
       !.nextBuffer = @ + 3,
       !.chunkBuffers =
           MapSet(@, chunkKey,
                  [ position   |-> w.nextBuffer,
                    color      |-> w.nextBuffer + 1,
                    indices    |-> w.nextBuffer + 2,
                    indexCount |-> Len(MeshIndices(mesh.faces)) ])]
CreateChunkBuffers(w, prog, chunkKey, mesh) ==
    IF prog = NULL
    THEN w
    ELSE [w EXCEPT
            !.glBuffers = @ \cup {w.nextBuffer, w.nextBuffer + 1,
                                  w.nextBuffer + 2},
            !.nextBuffer = @ + 3,
            !.chunkBuffers =
                MapSet(@, chunkKey,
                       [ position   |-> w.nextBuffer,
                         color      |-> w.nextBuffer + 1,
                         indices    |-> w.nextBuffer + 2,
                         indexCount |-> Len(MeshIndices(mesh.faces)) ])]

\* world.js:118-122, 284-289, 345-350: gl.deleteBuffer on the three handles
DeleteOldBuffers(w, key) ==
    IF key \in DOMAIN w.chunkBuffers
    THEN LET buffers == w.chunkBuffers[key]
         IN [w EXCEPT !.glBuffers = @ \ {buffers.position, buffers.color,
                                         buffers.indices}]
    ELSE w

\* world.js:280-292 and 341-353: rebuild the mesh and the buffers of a chunk
RebuildChunk(w, prog, key) ==
    LET w1 == SetChunkMesh(w, key)
        w2 == DeleteOldBuffers(w1, key)
    IN CreateChunkBuffers(w2, prog, key, w1.chunkMeshes[key])

\* world.js:336-355
BadUpdateChunkMesh(w, prog, chunkX, chunkZ) == w
UpdateChunkMesh(w, prog, chunkX, chunkZ) ==
    LET key == getChunkKey(chunkX, chunkZ)
    IN IF key \in DOMAIN w.chunks
       THEN RebuildChunk(w, prog, key)
       ELSE w

\* world.js:301-332: the neighbours to rebuild, in the order of the code
BadNeighborUpdates(chunkX, chunkZ, blockX, blockZ) ==
    LET onXMinEdge == blockX = 0
        onXMaxEdge == blockX = chunkSize - 1
        onZMinEdge == blockZ = 0
        onZMaxEdge == blockZ = chunkSize - 1
        all == << <<onXMinEdge, chunkX - 1, chunkZ>>,
                  <<onXMaxEdge, chunkX + 1, chunkZ>>,
                  <<onZMinEdge, chunkX, chunkZ - 1>>,
                  <<onZMaxEdge, chunkX, chunkZ + 1>> >>
    IN SelectSeq(all, LAMBDA u : u[1])
NeighborUpdates(chunkX, chunkZ, blockX, blockZ) ==
    LET onXMinEdge == blockX = 0
        onXMaxEdge == blockX = chunkSize - 1
        onZMinEdge == blockZ = 0
        onZMaxEdge == blockZ = chunkSize - 1
        all == << <<onXMinEdge, chunkX - 1, chunkZ>>,
                  <<onXMaxEdge, chunkX + 1, chunkZ>>,
                  <<onZMinEdge, chunkX, chunkZ - 1>>,
                  <<onZMaxEdge, chunkX, chunkZ + 1>>,
                  <<onXMinEdge /\ onZMinEdge, chunkX - 1, chunkZ - 1>>,
                  <<onXMinEdge /\ onZMaxEdge, chunkX - 1, chunkZ + 1>>,
                  <<onXMaxEdge /\ onZMinEdge, chunkX + 1, chunkZ - 1>>,
                  <<onXMaxEdge /\ onZMaxEdge, chunkX + 1, chunkZ + 1>> >>
    IN SelectSeq(all, LAMBDA u : u[1])

RECURSIVE UpdateEach(_, _, _)
UpdateEach(w, prog, updates) ==
    IF updates = << >>
    THEN w
    ELSE UpdateEach(UpdateChunkMesh(w, prog, updates[1][2], updates[1][3]),
                    prog, Tail(updates))

\* world.js:299-333
UpdateNeighboringChunks(w, prog, chunkX, chunkZ, blockX, blockZ) ==
    UpdateEach(w, prog, NeighborUpdates(chunkX, chunkZ, blockX, blockZ))

\* world.js:238-256
WorldGetBlock(chs, x, y, z) ==
    LET chunkX == ChunkCoord(x, chunkSize)
        chunkZ == ChunkCoord(z, chunkSize)
        blockX == BlockCoord(x, chunkSize)
        blockY == y
        blockZ == BlockCoord(z, chunkSize)
        key == getChunkKey(chunkX, chunkZ)
    IN IF key \notin DOMAIN chs
       THEN 0
       ELSE ChunkGetBlock(chs[key], chunkSize, blockX, blockY, blockZ)

\* world.js:259-296
WorldSetBlock(w, prog, sd, x, y, z, blockType, k) ==
    LET chunkX == ChunkCoord(x, chunkSize)
        chunkZ == ChunkCoord(z, chunkSize)
        blockX == BlockCoord(x, chunkSize)
        blockY == y
        blockZ == BlockCoord(z, chunkSize)
        key == getChunkKey(chunkX, chunkZ)
        w1 == GenerateChunk(w, sd, chunkX, chunkZ, k)
        w2 == [w1 EXCEPT !.chunks[key] =
                  ChunkSetBlock(@, chunkSize, blockX, blockY, blockZ, blockType)]
        w3 == RebuildChunk(w2, prog, key)
    IN UpdateNeighboringChunks(w3, prog, chunkX, chunkZ, blockX, blockZ)


\* world.js:88-94: build the mesh and the buffers of a chunk that has no mesh
BadBuildMeshIfNeeded(w, prog, key) ==
    LET w3 == SetChunkMesh(w, key)
    IN CreateChunkBuffers(w3, prog, key, w3.chunkMeshes[key])
BuildMeshIfNeeded(w, prog, key) ==
    IF key \notin DOMAIN w.chunkMeshes
    THEN LET w3 == SetChunkMesh(w, key)
         IN CreateChunkBuffers(w3, prog, key, w3.chunkMeshes[key])
    ELSE w

\* world.js:69-96: iteration n of the two loops, x outer and z inner
RECURSIVE VisitLoop(_, _, _, _, _, _, _, _, _)
VisitLoop(w, prog, sd, dist, centerChunkX, centerChunkZ, k, n, visible) ==
    IF n >= (2 * dist + 1) * (2 * dist + 1)
    THEN [w |-> w, visibleChunkKeys |-> visible]
    ELSE LET x == (n \div (2 * dist + 1)) - dist
             z == (n % (2 * dist + 1)) - dist
             chunkX == centerChunkX + x
             chunkZ == centerChunkZ + z
             key == getChunkKey(chunkX, chunkZ)
             distSq == x * x + z * z
             w1 == GenerateChunk(w, sd, chunkX, chunkZ, k)
             w2 == BuildMeshIfNeeded(w1, prog, key)
         IN IF distSq > dist * dist
            THEN VisitLoop(w, prog, sd, dist, centerChunkX, centerChunkZ, k,
                           n + 1, visible)
            ELSE VisitLoop(w2, prog, sd, dist, centerChunkX, centerChunkZ, k,
                           n + 1,
                           IF \E i \in DOMAIN visible : visible[i] = key
                           THEN visible
                           ELSE Append(visible, key))

\* world.js:99-102
LoadedChunksOf(visible) ==
    [i \in DOMAIN visible |->
        [ chunkX |-> SplitKey(visible[i])[1],
          chunkZ |-> SplitKey(visible[i])[2],
          key    |-> visible[i] ]]

\* world.js:105-125: remove the chunks, meshes and buffers no longer visible
BadEvict(w, visible) ==
    LET keep == {visible[i] : i \in DOMAIN visible}
        chunksToRemove == DOMAIN w.chunks \ keep
    IN [w EXCEPT
          !.chunks = [key \in DOMAIN @ \ chunksToRemove |-> @[key]]]
Evict(w, visible) ==
    LET keep == {visible[i] : i \in DOMAIN visible}
        chunksToRemove == DOMAIN w.chunks \ keep
        deleted == UNION { { w.chunkBuffers[key].position,
                             w.chunkBuffers[key].color,
                             w.chunkBuffers[key].indices } :
                           key \in chunksToRemove \cap DOMAIN w.chunkBuffers }
    IN [w EXCEPT
          !.chunks = [key \in DOMAIN @ \ chunksToRemove |-> @[key]],
          !.chunkMeshes = [key \in DOMAIN @ \ chunksToRemove |-> @[key]],
          !.chunkBuffers = [key \in DOMAIN @ \ chunksToRemove |-> @[key]],
          !.glBuffers = @ \ deleted]

(***************************************************************************)
(* World operations.                                                       *)
(***************************************************************************)
EmptyMap == [key \in {} |-> NULL]

Call(op, args, ret) == [op |-> op, args |-> args, ret |-> ret]

\* world.js:4-20
Init ==
    /\ programInfo = NULL
    /\ seed \in Seeds
    /\ renderDistance \in InitDistances
    /\ chunks = EmptyMap
    /\ chunkMeshes = EmptyMap
    /\ chunkBuffers = EmptyMap
    /\ loadedChunks = << >>
    /\ glBuffers = {}
    /\ nextBuffer = 1
    /\ nextMesh = 1
    /\ rng \in Streams
    /\ drawn = 0
    /\ ops = 0
    /\ lastOp = Call("new", << >>, NULL)
    /\ chunk = EmptyBlocks(chunkSize)
    /\ stored = EmptyMap
    /\ generated = EmptyMap
    /\ chunkOps = 0
    /\ lastChunkOp = Call("none", << >>, NULL)

\* the maps of the World after a call that left them as w
Publish(w) ==
    /\ chunks' = w.chunks
    /\ chunkMeshes' = w.chunkMeshes
    /\ chunkBuffers' = w.chunkBuffers
    /\ glBuffers' = w.glBuffers
    /\ nextBuffer' = w.nextBuffer
    /\ nextMesh' = w.nextMesh
    /\ drawn' = w.drawn

\* world.js:23-29
init(p) ==
    /\ programInfo' = p
    /\ ops' = ops + 1
    /\ lastOp' = Call("init", << p >>, NULL)
    /\ UNCHANGED << seed, renderDistance, chunks, chunkMeshes, chunkBuffers,
                    loadedChunks, glBuffers, nextBuffer, nextMesh,
                    rng, drawn >>
    /\ UNCHANGED chunkVars
InitProgram(p) == ops < MaxOps /\ init(p)

\* world.js:37-52
GenerateChunkCall(chunkX, chunkZ) ==
    /\ ops < MaxOps
    /\ LET w == GenerateChunk(TheWorld, seed, chunkX, chunkZ, rng)
       IN /\ Publish(w)
          /\ lastOp' = Call("generateChunk", << chunkX, chunkZ >>,
                            w.chunks[getChunkKey(chunkX, chunkZ)])
    /\ ops' = ops + 1
    /\ UNCHANGED << programInfo, seed, renderDistance, loadedChunks, rng >>
    /\ UNCHANGED chunkVars

\* world.js:55-126
updateChunks(cameraPosition) ==
    /\ IF programInfo = NULL
       THEN UNCHANGED << chunks, chunkMeshes, chunkBuffers, loadedChunks,
                         glBuffers, nextBuffer, nextMesh, drawn >>
       ELSE LET centerChunkX == ChunkCoord(cameraPosition[1], chunkSize)
                centerChunkZ == ChunkCoord(cameraPosition[3], chunkSize)
                v == VisitLoop(TheWorld, programInfo, seed, renderDistance,
                               centerChunkX, centerChunkZ, rng, 0, << >>)
            IN /\ loadedChunks' = LoadedChunksOf(v.visibleChunkKeys)
               /\ Publish(Evict(v.w, v.visibleChunkKeys))
    /\ ops' = ops + 1
    /\ lastOp' = Call("updateChunks", cameraPosition, programInfo)
    /\ UNCHANGED << programInfo, seed, renderDistance, rng >>
    /\ UNCHANGED chunkVars
UpdateChunks(cameraPosition) == ops < MaxOps /\ updateChunks(cameraPosition)

\* world.js:238-256
BadGetBlockCall(x, y, z) ==
    /\ ops < MaxOps
    /\ ops' = ops + 1
    /\ LET w == GenerateChunk(TheWorld, seed, ChunkCoord(x, chunkSize),
                              ChunkCoord(z, chunkSize), rng)
       IN /\ Publish(w)
          /\ lastOp' = Call("getBlock", << x, y, z >>,
                            WorldGetBlock(w.chunks, x, y, z))
    /\ UNCHANGED << programInfo, seed, renderDistance, loadedChunks, rng >>
    /\ UNCHANGED chunkVars
GetBlockCall(x, y, z) ==
    /\ ops < MaxOps
    /\ ops' = ops + 1
    /\ lastOp' = Call("getBlock", << x, y, z >>, WorldGetBlock(chunks, x, y, z))
    /\ UNCHANGED << programInfo, seed, renderDistance, chunks, chunkMeshes,
                    chunkBuffers, loadedChunks, glBuffers, nextBuffer,
                    nextMesh, rng, drawn >>
    /\ UNCHANGED chunkVars

\* world.js:259-296
setBlock(x, y, z, blockType) ==
    /\ Publish(WorldSetBlock(TheWorld, programInfo, seed, x, y, z, blockType,
                             rng))
    /\ ops' = ops + 1
    /\ lastOp' = Call("setBlock", << x, y, z, blockType >>, NULL)
    /\ UNCHANGED << programInfo, seed, renderDistance, loadedChunks, rng >>
    /\ UNCHANGED chunkVars
SetBlockCall(x, y, z, blockType) == ops < MaxOps /\ setBlock(x, y, z, blockType)

\* world.js:358-360
BadSetRenderDistance(distance) ==
    /\ ops < MaxOps
    /\ renderDistance' = Max(1, distance)
    /\ ops' = ops + 1
    /\ lastOp' = Call("setRenderDistance", << distance >>, NULL)
    /\ UNCHANGED << programInfo, seed, chunks, chunkMeshes, chunkBuffers,
                    loadedChunks, glBuffers, nextBuffer, nextMesh,
                    rng, drawn >>
    /\ UNCHANGED chunkVars
BadSetRenderDistanceEager(distance) ==
    /\ renderDistance' = Max(1, Min(distance, 10))
    /\ loadedChunks' = << >>
    /\ ops' = ops + 1
    /\ lastOp' = Call("setRenderDistance", << distance >>, NULL)
    /\ UNCHANGED << programInfo, seed, chunks, chunkMeshes, chunkBuffers,
                    glBuffers, nextBuffer, nextMesh, rng, drawn >>
    /\ UNCHANGED chunkVars
setRenderDistance(distance) ==
    /\ renderDistance' = Max(1, Min(distance, 10))
    /\ ops' = ops + 1
    /\ lastOp' = Call("setRenderDistance", << distance >>, NULL)
    /\ UNCHANGED << programInfo, seed, chunks, chunkMeshes, chunkBuffers,
                    loadedChunks, glBuffers, nextBuffer, nextMesh,
                    rng, drawn >>
    /\ UNCHANGED chunkVars
SetRenderDistance(distance) == ops < MaxOps /\ setRenderDistance(distance)

\* world.js:160-235: the draw calls issued, in order
BadDrawCalls ==
    IF programInfo = NULL
    THEN << >>
    ELSE LET visible == SelectSeq(loadedChunks,
                                LAMBDA c : c.key \in DOMAIN chunkBuffers)
         IN [i \in DOMAIN visible |->
               [ key         |-> visible[i].key,
                 buffers     |-> chunkBuffers[visible[i].key],
                 translation |-> << visible[i].chunkX, 0,
                                    visible[i].chunkZ >> ]]
DrawCallsOf(prog, loaded, buffers) ==
    IF prog = NULL
    THEN << >>
    ELSE LET visible == SelectSeq(loaded, LAMBDA c : c.key \in DOMAIN buffers)
         IN [i \in DOMAIN visible |->
               [ key         |-> visible[i].key,
                 buffers     |-> buffers[visible[i].key],
                 translation |-> << visible[i].chunkX * chunkSize, 0,
                                    visible[i].chunkZ * chunkSize >> ]]
DrawCalls == DrawCallsOf(programInfo, loadedChunks, chunkBuffers)

render ==
    /\ ops' = ops + 1
    /\ lastOp' = Call("render", << >>, DrawCalls)
    /\ UNCHANGED << programInfo, seed, renderDistance, chunks, chunkMeshes,
                    chunkBuffers, loadedChunks, glBuffers, nextBuffer,
                    nextMesh, rng, drawn >>
    /\ UNCHANGED chunkVars
Render == ops < MaxOps /\ render

Next ==
    \/ \E p \in {NULL, PROGRAM} : InitProgram(p)
    \/ \E c \in GenCoords : GenerateChunkCall(c[1], c[2])
    \/ \E p \in CameraPositions : UpdateChunks(p)
    \/ \E c \in BlockCoords : GetBlockCall(c[1], c[2], c[3])
    \/ \E e \in Edits : SetBlockCall(e[1], e[2], e[3], e[4])
    \/ \E d \in DistanceInputs : SetRenderDistance(d)
    \/ Render

Spec == Init /\ [][Next]_vars

(***************************************************************************)
(* The World before any chunk is generated: the operations that take no    *)
(* chunk into the maps, with setRenderDistance given every argument from   *)
(* below the lower limit to above the upper one.                           *)
(***************************************************************************)
WideDistances == -2 .. 13

SettingsNext ==
    \/ \E p \in {NULL, PROGRAM} : InitProgram(p)
    \/ \E d \in WideDistances : SetRenderDistance(d)
    \/ \E c \in BlockCoords : GetBlockCall(c[1], c[2], c[3])
    \/ Render

SettingsSpec == Init /\ [][SettingsNext]_vars

(***************************************************************************)
(* The frame loop: the calls a running game makes on one World, an edit,   *)
(* a chunk update around either of two camera positions and a render,      *)
(* with init given the program or null, followed for more calls than Spec. *)
(***************************************************************************)
FrameCameras == { <<0, 0, 0>>, <<chunkSize, 0, 0>> }
FrameEdits == { <<0, 1, 0, AIR>>, <<0, 1, 0, STONE>> }

FrameInit(p) == ops < MaxFrameOps /\ init(p)
FrameUpdate(cameraPosition) == ops < MaxFrameOps /\ updateChunks(cameraPosition)
FrameEdit(x, y, z, blockType) == ops < MaxFrameOps /\ setBlock(x, y, z, blockType)
FrameRender == ops < MaxFrameOps /\ render

FrameNext ==
    \/ \E p \in {NULL, PROGRAM} : FrameInit(p)
    \/ \E p \in FrameCameras : FrameUpdate(p)
    \/ \E e \in FrameEdits : FrameEdit(e[1], e[2], e[3], e[4])
    \/ FrameRender

FrameSpec == Init /\ [][FrameNext]_vars

(***************************************************************************)
(* The WorldRenderer: its constructor makes a World of render distance     *)
(* RendererDistance and gives it the program; then frames, clicks that     *)
(* edit a block and moves of the render distance slider follow one another.*)
(***************************************************************************)
\* render distance the renderer gives its World (4 in world-renderer.js:21)
RendererDistance == 1
\* values of the render distance slider
SliderInputs == {1, 2}

\* world-renderer.js:4-37
RendererInit ==
    /\ programInfo = PROGRAM
    /\ seed \in Seeds
    /\ renderDistance = RendererDistance
    /\ chunks = EmptyMap
    /\ chunkMeshes = EmptyMap
    /\ chunkBuffers = EmptyMap
    /\ loadedChunks = << >>
    /\ glBuffers = {}
    /\ nextBuffer = 1
    /\ nextMesh = 1
    /\ rng \in Streams
    /\ drawn = 0
    /\ ops = 0
    /\ lastOp = Call("init", << PROGRAM >>, NULL)
    /\ chunk = EmptyBlocks(chunkSize)
    /\ stored = EmptyMap
    /\ generated = EmptyMap
    /\ chunkOps = 0
    /\ lastChunkOp = Call("none", << >>, NULL)

\* world.js:55-126 with the program initialised: the maps and the render
\* list that updateChunks leaves
UpdateResult(w, prog, sd, dist, cameraPosition, k) ==
    LET centerChunkX == ChunkCoord(cameraPosition[1], chunkSize)
        centerChunkZ == ChunkCoord(cameraPosition[3], chunkSize)
        v == VisitLoop(w, prog, sd, dist, centerChunkX, centerChunkZ, k, 0,
                       << >>)
    IN [ w            |-> Evict(v.w, v.visibleChunkKeys),
         loadedChunks |-> LoadedChunksOf(v.visibleChunkKeys) ]

\* world-renderer.js:180-216: render first, then the chunk update
BadFrameResult(w, loaded, prog, sd, dist, cameraPosition, k) ==
    CHOOSE r \in { [ w            |-> u.w,
                     loadedChunks |-> u.loadedChunks,
                     draws        |-> DrawCallsOf(prog, loaded,
                                                  w.chunkBuffers) ] :
                   u \in { UpdateResult(w, prog, sd, dist, cameraPosition,
                                        k) } } : TRUE
\* world-renderer.js:180-216: the chunk update around the camera position
\* (line 193), then World.render on what the update left (line 215)
FrameResult(w, loaded, prog, sd, dist, cameraPosition, k) ==
    CHOOSE r \in { [ w            |-> u.w,
                     loadedChunks |-> u.loadedChunks,
                     draws        |-> DrawCallsOf(prog, u.loadedChunks,
                                                  u.w.chunkBuffers) ] :
                   u \in { UpdateResult(w, prog, sd, dist, cameraPosition,
                                        k) } } : TRUE

\* world-renderer.js:180-216: one frame with the camera at cameraPosition
RendererFrame(cameraPosition) ==
    /\ ops < MaxRendererOps
    /\ \E r \in { FrameResult(TheWorld, loadedChunks, programInfo, seed,
                               renderDistance, cameraPosition, rng) } :
          /\ Publish(r.w)
          /\ loadedChunks' = r.loadedChunks
          /\ lastOp' = Call("frame", cameraPosition, r.draws)
    /\ ops' = ops + 1
    /\ UNCHANGED << programInfo, seed, renderDistance, rng >>
    /\ UNCHANGED chunkVars
\* world-renderer.js:125-177: a click that places or removes a block
RendererClick(x, y, z, blockType) ==
    ops < MaxRendererOps /\ setBlock(x, y, z, blockType)
\* world-renderer.js:96-100: the slider is moved
RendererSlider(distance) ==
    ops < MaxRendererOps /\ setRenderDistance(distance)

RendererNext ==
    \/ \E p \in FrameCameras : RendererFrame(p)
    \/ \E e \in FrameEdits : RendererClick(e[1], e[2], e[3], e[4])
    \/ \E d \in SliderInputs : RendererSlider(d)

RendererSpec == RendererInit /\ [][RendererNext]_vars

(***************************************************************************)
(* The settings menu of a running game: the render distance is changed     *)
(* between chunk updates around either of two camera positions.            *)
(***************************************************************************)
DistanceInit(p) == ops < MaxDistanceOps /\ init(p)
DistanceUpdate(cameraPosition) ==
    ops < MaxDistanceOps /\ updateChunks(cameraPosition)
DistanceSet(distance) == ops < MaxDistanceOps /\ setRenderDistance(distance)

DistanceNext ==
    \/ \E p \in {NULL, PROGRAM} : DistanceInit(p)
    \/ \E p \in FrameCameras : DistanceUpdate(p)
    \/ \E d \in DistanceInputs : DistanceSet(d)

DistanceSpec == Init /\ [][DistanceNext]_vars


(***************************************************************************)
(* A stand-alone Chunk: new Chunk(chunkSize) and calls of its methods.     *)
(***************************************************************************)
\* the voxels of the chunk
Cube == (0 .. (chunkSize - 1)) \X (0 .. (chunkSize - 1)) \X (0 .. (chunkSize - 1))
\* coordinates handed to Chunk.getBlock and Chunk.setBlock: the corners of
\* the chunk and the nearest voxels outside it on every side
ChunkCoords ==
    { <<0, 0, 0>>, <<chunkSize - 1, 0, 0>>, <<0, chunkSize - 1, 0>>,
      <<0, 0, chunkSize - 1>>, <<chunkSize - 1, chunkSize - 1, chunkSize - 1>>,
      <<-1, 1, 0>>, <<0, -1, 1>>, <<1, 0, -1>>,
      <<chunkSize, 0, 0>>, <<0, chunkSize, 0>>, <<0, 0, chunkSize>> }
\* arguments handed to Chunk.generateTerrain
TerrainArgs == { <<0, 0, 42>>, <<1, 0, 42>> }

StoredAfterTerrain(k, at) ==
    [v \in Cube |-> TerrainAt(chunkSize, k, at, v[1], v[2], v[3])]

\* chunk.js:4-38: the constructor fills the buffer with generateTerrain()
ChunkInit ==
    /\ programInfo = NULL
    /\ seed \in Seeds
    /\ renderDistance \in InitDistances
    /\ chunks = EmptyMap
    /\ chunkMeshes = EmptyMap
    /\ chunkBuffers = EmptyMap
    /\ loadedChunks = << >>
    /\ glBuffers = {}
    /\ nextBuffer = 1
    /\ nextMesh = 1
    /\ rng \in ChunkStreams
    /\ drawn = Advance(0, DrawsPerTerrain)
    /\ ops = 0
    /\ lastOp = Call("new", << >>, NULL)
    /\ chunk = GenerateTerrain(chunkSize, 0, 0, 0, rng, 0)
    /\ stored = StoredAfterTerrain(rng, 0)
    /\ generated = EmptyMap
    /\ chunkOps = 0
    /\ lastChunkOp = Call("new", << chunkSize >>, NULL)

\* chunk.js:41-47
ChunkGetBlockCall(x, y, z) ==
    /\ chunkOps < MaxChunkOps
    /\ chunkOps' = chunkOps + 1
    /\ lastChunkOp' = Call("getBlock", << x, y, z >>,
                           ChunkGetBlock(chunk, chunkSize, x, y, z))
    /\ UNCHANGED << chunk, stored, generated >>
    /\ UNCHANGED worldVars

\* chunk.js:50-56
ChunkSetBlockCall(x, y, z, blockType) ==
    /\ chunkOps < MaxChunkOps
    /\ chunkOps' = chunkOps + 1
    /\ chunk' = ChunkSetBlock(chunk, chunkSize, x, y, z, blockType)
    /\ stored' = IF << x, y, z >> \in Cube
                 THEN [stored EXCEPT ![<< x, y, z >>] = ToUint8(blockType)]
                 ELSE stored
    /\ lastChunkOp' = Call("setBlock", << x, y, z, blockType >>, NULL)
    /\ UNCHANGED generated
    /\ UNCHANGED worldVars

\* chunk.js:59-125, called as world.js:45 calls it.  The result of the call
\* is kept under its arguments; ret is the buffer an earlier call with the
\* same arguments produced, if there was one.
ChunkGenerateTerrainCall(chunkWorldX, chunkWorldZ, sd) ==
    /\ chunkOps < MaxChunkOps
    /\ chunkOps' = chunkOps + 1
    /\ chunk' = GenerateTerrain(chunkSize, chunkWorldX, chunkWorldZ, sd, rng,
                                 drawn)
    /\ drawn' = Advance(drawn, DrawsPerTerrain)
    /\ stored' = StoredAfterTerrain(rng, drawn)
    /\ generated' = MapSet(generated, << chunkWorldX, chunkWorldZ, sd >>,
                           chunk')
    /\ lastChunkOp' =
          Call("generateTerrain", << chunkWorldX, chunkWorldZ, sd >>,
               IF << chunkWorldX, chunkWorldZ, sd >> \in DOMAIN generated
               THEN << generated[<< chunkWorldX, chunkWorldZ, sd >>] >>
               ELSE << >>)
    /\ UNCHANGED << programInfo, seed, renderDistance, chunks, chunkMeshes,
                    chunkBuffers, loadedChunks, glBuffers, nextBuffer,
                    nextMesh, rng, ops, lastOp >>

ChunkNext ==
    \/ \E c \in ChunkCoords : ChunkGetBlockCall(c[1], c[2], c[3])
    \/ \E c \in ChunkCoords, t \in BlockTypes :
          ChunkSetBlockCall(c[1], c[2], c[3], t)
    \/ \E a \in TerrainArgs : ChunkGenerateTerrainCall(a[1], a[2], a[3])

ChunkSpec == ChunkInit /\ [][ChunkNext]_vars

(***************************************************************************)
(* Meshing a stand-alone Chunk.  The voxels buildMesh reads are whatever   *)
(* setBlock calls have made of the chunk, so the chunk starts from one of  *)
(* a set of contents: the generated terrains, the chunks filled with one   *)
(* block type, and two that put water against solid blocks and against     *)
(* water.  It is then edited and meshed.                                   *)
(***************************************************************************)
\* a buffer filled with one block type
Uniform(size, blockType) ==
    ArrayFrom([i \in 0 .. (size * size * size - 1) |-> blockType],
              size * size * size)
\* stone at the bottom, one layer of water on it, air above
Layered(size) ==
    ArrayFrom([i \in 0 .. (size * size * size - 1) |->
                  LET y == (i \div size) % size
                  IN IF y = 0 THEN STONE ELSE IF y = 1 THEN WATER ELSE AIR],
              size * size * size)
\* sand and water alternating, with a stone column in the middle
Mixed(size) ==
    ArrayFrom([i \in 0 .. (size * size * size - 1) |->
                  LET x == i % size
                      y == (i \div size) % size
                      z == i \div (size * size)
                  IN IF x = 1 /\ z = 1 THEN STONE
                     ELSE IF (x + y + z) % 2 = 0 THEN SAND ELSE WATER],
              size * size * size)
\* stone and water alternating in all three directions
Checkered(size) ==
    ArrayFrom([i \in 0 .. (size * size * size - 1) |->
                  LET x == i % size
                      y == (i \div size) % size
                      z == i \div (size * size)
                  IN IF (x + y + z) % 2 = 0 THEN STONE ELSE WATER],
              size * size * size)
MeshChunks ==
    { Terrains[k][run] : k \in Streams, run \in 1 .. 3 }
      \cup { Uniform(chunkSize, t) : t \in BlockTypes }
      \cup { Layered(chunkSize), Mixed(chunkSize), Checkered(chunkSize) }
MeshEdits ==
    { <<1, 1, 1, AIR>>, <<0, 0, 0, WATER>>, <<1, chunkSize - 1, 1, STONE>>,
      <<chunkSize, 0, 0, STONE>> }

MeshInit ==
    /\ programInfo = NULL
    /\ seed \in Seeds
    /\ renderDistance \in InitDistances
    /\ chunks = EmptyMap
    /\ chunkMeshes = EmptyMap
    /\ chunkBuffers = EmptyMap
    /\ loadedChunks = << >>
    /\ glBuffers = {}
    /\ nextBuffer = 1
    /\ nextMesh = 1
    /\ rng \in Streams
    /\ drawn = Advance(0, DrawsPerTerrain)
    /\ ops = 0
    /\ lastOp = Call("new", << >>, NULL)
    /\ chunk \in MeshChunks
    /\ stored = [v \in Cube |-> ChunkGetBlock(chunk, chunkSize, v[1], v[2], v[3])]
    /\ generated = EmptyMap
    /\ chunkOps = 0
    /\ lastChunkOp = Call("new", << chunkSize >>, NULL)

\* chunk.js:128-185
ChunkBuildMeshCall ==
    /\ chunkOps < MaxChunkOps
    /\ chunkOps' = chunkOps + 1
    /\ lastChunkOp' = Call("buildMesh", << >>, Mesh(chunk, chunkSize))
    /\ UNCHANGED << chunk, stored, generated >>
    /\ UNCHANGED worldVars

MeshNext ==
    \/ \E e \in MeshEdits : ChunkSetBlockCall(e[1], e[2], e[3], e[4])
    \/ ChunkBuildMeshCall

MeshSpec == MeshInit /\ [][MeshNext]_vars


(***************************************************************************)
(* Properties.                                                             *)
(***************************************************************************)
\* the chunk coordinate that owns world coordinate w: the c with
\* 0 <= w - c * size < size
OwnerOf(w, size) ==
    CHOOSE c \in (-(size + w * w)) .. (size + w * w) :
        w - c * size >= 0 /\ w - c * size < size
\* the key of the chunk that owns world column (x, z), and the local voxel
OwnerKey(x, z) == getChunkKey(OwnerOf(x, chunkSize), OwnerOf(z, chunkSize))
LocalOf(w, size) == w - OwnerOf(w, size) * size
\* the buffers generateTerrain can produce from the stream of the behaviour
Generatable == { Terrains[rng][run] : run \in 1 .. 3 }
LoadedKeys == { loadedChunks[i].key : i \in DOMAIN loadedChunks }

\* C1: after updateChunks(p) run with an initialised program and render
\* distance R, the keys of the chunk map, the mesh map, the buffer map and
\* the render list are each exactly the chunks within R of the centre chunk.
StreamingExact ==
    (lastOp.op = "updateChunks" /\ lastOp.ret # NULL) =>
        LET c0x == OwnerOf(lastOp.args[1], chunkSize)
            c0z == OwnerOf(lastOp.args[3], chunkSize)
            R == renderDistance
            kept == { getChunkKey(c0x + dx, c0z + dz) :
                        << dx, dz >> \in
                          { d \in (-R .. R) \X (-R .. R) :
                              d[1] * d[1] + d[2] * d[2] <= R * R } }
        IN /\ DOMAIN chunks = kept
           /\ DOMAIN chunkMeshes = kept
           /\ DOMAIN chunkBuffers = kept
           /\ LoadedKeys = kept

\* C2: Chunk.getBlock is defined at every coordinate: it gives Air outside
\* the cube and the value last stored at the voxel inside it.
GetBlockTotal ==
    /\ \A c \in Cube \cup ChunkCoords :
          ChunkGetBlock(chunk, chunkSize, c[1], c[2], c[3])
            = IF c \in Cube THEN stored[c] ELSE AIR
    /\ lastChunkOp.op = "getBlock" =>
          lastChunkOp.ret = IF lastChunkOp.args \in Cube
                            THEN stored[lastChunkOp.args]
                            ELSE AIR
WitnessGetBlock ==
    /\ lastChunkOp.op = "getBlock"
    /\ lastChunkOp.args \in Cube
    /\ lastChunkOp.ret = SAND
    /\ \E c \in ChunkCoords \ Cube :
          ChunkGetBlock(chunk, chunkSize, c[1], c[2], c[3]) = AIR

\* C3: Chunk.setBlock with a coordinate outside the cube leaves the whole
\* block buffer as it was.
SetBlockOutOfRangeIgnored ==
    [][ (lastChunkOp'.op = "setBlock"
           /\ << lastChunkOp'.args[1], lastChunkOp'.args[2],
                 lastChunkOp'.args[3] >> \notin Cube)
        => chunk' = chunk ]_vars
WitnessSetBlockOutOfRange ==
    /\ lastChunkOp.op = "setBlock"
    /\ << lastChunkOp.args[1], lastChunkOp.args[2], lastChunkOp.args[3] >>
         \notin Cube
    /\ lastChunkOp.args[4] = SAND
    /\ \E i \in DOMAIN chunk : chunk[i] # AIR

\* C4: after Chunk.setBlock(x,y,z,T) inside the cube, getBlock(x,y,z) gives
\* T and getBlock at every other voxel gives what it gave before; the index
\* of the flat buffer is injective over the cube.
SetThenGet ==
    [][ LET a == lastChunkOp'.args
            v == << a[1], a[2], a[3] >>
        IN (lastChunkOp'.op = "setBlock" /\ v \in Cube) =>
             /\ ChunkGetBlock(chunk', chunkSize, v[1], v[2], v[3]) = a[4]
             /\ \A u \in Cube \ {v} :
                   ChunkGetBlock(chunk', chunkSize, u[1], u[2], u[3])
                     = ChunkGetBlock(chunk, chunkSize, u[1], u[2], u[3])
             /\ \A u \in Cube \ {v} :
                   BlockIndex(chunkSize, u[1], u[2], u[3])
                     # BlockIndex(chunkSize, v[1], v[2], v[3]) ]_vars
WitnessSetThenGet ==
    /\ lastChunkOp.op = "setBlock"
    /\ << lastChunkOp.args[1], lastChunkOp.args[2], lastChunkOp.args[3] >>
         \in Cube
    /\ lastChunkOp.args[4] = SAND
    /\ ChunkGetBlock(chunk, chunkSize, lastChunkOp.args[1],
                     lastChunkOp.args[2], lastChunkOp.args[3]) = SAND
    /\ \E i \in DOMAIN chunk : chunk[i] \notin {AIR, SAND}

\* C5: a run of generateTerrain produces the buffer that the earlier run
\* with the same (chunkWorldX, chunkWorldZ, seed) produced.
TerrainDeterministic ==
    (lastChunkOp.op = "generateTerrain" /\ Len(lastChunkOp.ret) > 0)
        => chunk = lastChunkOp.ret[1]

\* C6: generateChunk(cx,cz) returns the chunk under the key; a present key
\* keeps its chunk and the chunk map is unchanged, an absent key gets one new
\* generated chunk; the mesh map, the buffer map and the render list are
\* never touched.
GenerateChunkIdempotent ==
    [][ lastOp'.op = "generateChunk" =>
          LET key == getChunkKey(lastOp'.args[1], lastOp'.args[2])
          IN /\ key \in DOMAIN chunks'
             /\ lastOp'.ret = chunks'[key]
             /\ IF key \in DOMAIN chunks
                THEN chunks' = chunks
                ELSE /\ DOMAIN chunks' = DOMAIN chunks \cup {key}
                     /\ \A k \in DOMAIN chunks : chunks'[k] = chunks[k]
                     /\ chunks'[key] \in Generatable
             /\ chunkMeshes' = chunkMeshes
             /\ chunkBuffers' = chunkBuffers
             /\ loadedChunks' = loadedChunks
             /\ glBuffers' = glBuffers ]_vars
\* generateChunk returned a chunk that carries an earlier edit
WitnessGenerateChunkPresent ==
    /\ lastOp.op = "generateChunk"
    /\ lastOp.ret \notin Generatable
    /\ lastOp.ret = chunks[getChunkKey(lastOp.args[1], lastOp.args[2])]

\* C7: World.getBlock and World.setBlock address the chunk keyed
\* (floor(wx/S), floor(wz/S)) at local (wx - cx*S, wy, wz - cz*S), local x
\* and z in [0,S), for negative coordinates too, and agree with
\* Chunk.getBlock and Chunk.setBlock there; at S = 16, (20,5,-3) is chunk
\* (1,-1), local (4,5,13).
WorldCoordinateMapping ==
    [][ /\ ChunkCoord(20, 16) = 1 /\ BlockCoord(20, 16) = 4
        /\ ChunkCoord(-3, 16) = -1 /\ BlockCoord(-3, 16) = 13
        /\ \A w \in -40 .. 40 :
              /\ BlockCoord(w, 16) \in 0 .. 15
              /\ ChunkCoord(w, 16) * 16 + BlockCoord(w, 16) = w
        /\ LET a == lastOp'.args
               key == OwnerKey(a[1], a[3])
               lx == LocalOf(a[1], chunkSize)
               lz == LocalOf(a[3], chunkSize)
           IN /\ lastOp'.op = "getBlock" =>
                    lastOp'.ret =
                      IF key \in DOMAIN chunks
                      THEN ChunkGetBlock(chunks[key], chunkSize, lx, a[2], lz)
                      ELSE AIR
              /\ lastOp'.op = "setBlock" =>
                    /\ key \in DOMAIN chunks'
                    /\ \E before \in IF key \in DOMAIN chunks
                                     THEN {chunks[key]}
                                     ELSE Generatable :
                          chunks'[key] = ChunkSetBlock(before, chunkSize,
                                                       lx, a[2], lz, a[4])
                    /\ \A k \in DOMAIN chunks \ {key} :
                          k \in DOMAIN chunks' /\ chunks'[k] = chunks[k] ]_vars
\* an edit at negative x and z reached the voxel of chunk (-1,-1) it names
WitnessNegativeCoordinates ==
    /\ lastOp.op = "setBlock"
    /\ lastOp.args = << -1, 1, -1, STONE >>
    /\ getChunkKey(-1, -1) \in DOMAIN chunks
    /\ ChunkGetBlock(chunks[getChunkKey(-1, -1)], chunkSize,
                     chunkSize - 1, 1, chunkSize - 1) = STONE

\* C8: World.getBlock gives Air when the owning chunk is not in the chunk
\* map, and never changes the chunk map, the mesh map, the buffer map or the
\* render list.
GetBlockReadOnly ==
    [][ lastOp'.op = "getBlock" =>
          /\ OwnerKey(lastOp'.args[1], lastOp'.args[3]) \notin DOMAIN chunks
                => lastOp'.ret = AIR
          /\ chunks' = chunks
          /\ chunkMeshes' = chunkMeshes
          /\ chunkBuffers' = chunkBuffers
          /\ loadedChunks' = loadedChunks ]_vars
\* a read of a chunk that is not loaded, next to chunks that are
WitnessGetBlockMissingChunk ==
    /\ lastOp.op = "getBlock"
    /\ lastOp.ret = AIR
    /\ OwnerKey(lastOp.args[1], lastOp.args[3]) \notin DOMAIN chunks
    /\ DOMAIN chunks # {}

\* C9: after World.setBlock(wx,wy,wz,T) with wy in [0,S) the owning chunk is
\* in the chunk map, World.getBlock(wx,wy,wz) gives T, and the mesh map holds
\* for the chunk the mesh of its blocks after the edit.
SetBlockApplied ==
    (lastOp.op = "setBlock" /\ lastOp.args[2] \in 0 .. (chunkSize - 1)) =>
        LET key == OwnerKey(lastOp.args[1], lastOp.args[3])
        IN /\ key \in DOMAIN chunks
           /\ WorldGetBlock(chunks, lastOp.args[1], lastOp.args[2],
                            lastOp.args[3]) = lastOp.args[4]
           /\ key \in DOMAIN chunkMeshes
           /\ chunkMeshes[key].faces = BuildMesh(chunks[key], chunkSize)
\* the edit placed a block whose faces are in the mesh of its chunk
WitnessSetBlockMeshed ==
    /\ lastOp.op = "setBlock"
    /\ lastOp.args = << 1, 1, 1, STONE >>
    /\ getChunkKey(0, 0) \in DOMAIN chunkMeshes
    /\ \E i \in DOMAIN chunkMeshes[getChunkKey(0, 0)].faces :
          LET f == chunkMeshes[getChunkKey(0, 0)].faces[i]
          IN f.x = 1 /\ f.y = 1 /\ f.z = 1 /\ f.blockType = STONE

RenderDistanceClamped ==
    [][ lastOp'.op = "setRenderDistance" =>
          LET n == lastOp'.args[1]
          IN /\ renderDistance' = IF n < 1 THEN 1 ELSE IF n > 10 THEN 10 ELSE n
             /\ renderDistance' \in 1 .. 10 ]_vars
\* a call with an argument above the upper limit stored the limit
WitnessRenderDistanceClamped ==
    /\ lastOp.op = "setRenderDistance"
    /\ lastOp.args[1] > 10
    /\ renderDistance = 10


\* the three GPU buffer handles of a buffer map entry
HandlesOf(buffers) == {buffers.position, buffers.color, buffers.indices}
\* the handles referenced by the entries of the buffer map
ReferencedHandles == UNION { HandlesOf(chunkBuffers[key]) : key \in DOMAIN chunkBuffers }

\* C12: in every reachable state the GPU buffer handles created and not yet
\* deleted are exactly the handles referenced by the buffer map entries: no
\* handle is leaked and no entry references a deleted handle.
BuffersMatchHandles == glBuffers = ReferencedHandles


\* what a render call leaves behind, whatever the program info: for every
\* render-list chunk one draw call if it has a buffer map entry and none if
\* not, every draw call on a render-list chunk with that chunk's entry and
\* origin, and the maps as they were
RenderDrawsRenderList ==
    LET calls == lastOp'.ret
    IN /\ \A i \in DOMAIN loadedChunks :
             Cardinality({ j \in DOMAIN calls : calls[j].key = loadedChunks[i].key })
               = IF loadedChunks[i].key \in DOMAIN chunkBuffers THEN 1 ELSE 0
       /\ \A j \in DOMAIN calls :
             \E i \in DOMAIN loadedChunks :
                /\ calls[j].key = loadedChunks[i].key
                /\ calls[j].key \in DOMAIN chunkBuffers
                /\ calls[j].buffers = chunkBuffers[calls[j].key]
                /\ calls[j].translation = << loadedChunks[i].chunkX * chunkSize, 0,
                                             loadedChunks[i].chunkZ * chunkSize >>
       /\ UNCHANGED << chunks, chunkMeshes, chunkBuffers, loadedChunks >>

\* C13 (as stated): World.render issues exactly one draw call for each
\* render-list chunk that has a buffer map entry, with that entry's handles
\* and index count and the translation (chunkX*S, 0, chunkZ*S), none for a
\* render-list chunk without buffers or a chunk outside the render list, and
\* changes none of the maps.
RenderDrawsAlways ==
    [][ lastOp'.op = "render" => RenderDrawsRenderList ]_vars
\* C13 (amended): the same of a render call made while the program info is
\* initialised.
RenderDrawsWhenInitialised ==
    [][ lastOp'.op = "render" /\ programInfo # NULL => RenderDrawsRenderList ]_vars
\* a render with the program initialised that drew some render-list chunks
\* and skipped one that has no buffers
WitnessRenderSkipsUnbuffered ==
    /\ lastOp.op = "render"
    /\ programInfo # NULL
    /\ Len(lastOp.ret) > 0
    /\ \E i \in DOMAIN loadedChunks : loadedChunks[i].key \notin DOMAIN chunkBuffers
    /\ \E i \in DOMAIN loadedChunks : loadedChunks[i].key \in DOMAIN chunkBuffers


\* C14: whenever a chunk is in the render list without GPU buffers, an
\* updateChunks call made with an initialised program while the chunk is
\* still within the render distance builds its buffers: no chunk stays in
\* the render list without buffers across such an update.
UpdateBuildsMissingBuffers ==
    [][ lastOp'.op = "updateChunks" /\ programInfo # NULL =>
          \A i \in DOMAIN loadedChunks :
             LET key == loadedChunks[i].key
             IN key \notin DOMAIN chunkBuffers
                  /\ (\E j \in DOMAIN loadedChunks' : loadedChunks'[j].key = key)
                => key \in DOMAIN chunkBuffers' ]_vars


\* C15: while the program info is not initialised, updateChunks, render and
\* createChunkBuffers return without effect: the chunk map, the mesh map,
\* the buffer map and the render list are unchanged and no GPU buffer is
\* created, deleted or drawn.
UninitialisedNoEffect ==
    [][ programInfo = NULL =>
          /\ lastOp'.op \in {"updateChunks", "render"} =>
                /\ UNCHANGED << chunks, chunkMeshes, chunkBuffers, loadedChunks,
                                glBuffers, nextBuffer >>
                /\ lastOp'.op = "render" => lastOp'.ret = << >>
          /\ \A key \in DOMAIN chunkMeshes :
                CreateChunkBuffers(TheWorld, programInfo, key, chunkMeshes[key])
                  = TheWorld
          /\ lastOp'.op = "setBlock" =>
                /\ nextBuffer' = nextBuffer
                /\ \A key \in DOMAIN chunkBuffers' :
                      /\ key \in DOMAIN chunkBuffers
                      /\ chunkBuffers'[key] = chunkBuffers[key] ]_vars
\* updateChunks was called without a program on a World that holds a meshed
\* chunk without buffers, and built nothing
WitnessUninitialisedUpdate ==
    /\ lastOp.op = "updateChunks"
    /\ lastOp.ret = NULL
    /\ programInfo = NULL
    /\ \E key \in DOMAIN chunkMeshes : key \notin DOMAIN chunkBuffers
    /\ loadedChunks = << >>


\* the block the bounded accessor gives at voxel v of the stand-alone chunk
\* moved by d (Air outside the chunk)
BlockAt(v, d) == ChunkGetBlock(chunk, chunkSize, v[1] + d[1], v[2] + d[2], v[3] + d[3])
\* the pairs of a voxel and a face number of the quads of a mesh
QuadsOf(mesh) ==
    { << << mesh.faces[i].x, mesh.faces[i].y, mesh.faces[i].z >>, mesh.faces[i].face >> :
        i \in DOMAIN mesh.faces }
\* the pairs of a voxel and a face number for which the culling rule asks a
\* quad: the voxel is not Air and its neighbour in the direction of the face
\* is Air, or is Water while the voxel is not
QuadsDue ==
    { q \in Cube \X (0 .. 5) :
        LET v == BlockAt(q[1], <<0, 0, 0>>)
            n == BlockAt(q[1], faceDirections[q[2] + 1])
        IN v # AIR /\ (n = AIR \/ (n = WATER /\ v # WATER)) }

\* C16: buildMesh emits a quad for face f of voxel v exactly when v is not
\* Air and the neighbour of v in direction f, read through the bounded
\* accessor, is Air, or is Water while v is not Water; one quad per such face.
FaceCulling ==
    lastChunkOp.op = "buildMesh" =>
        /\ QuadsOf(lastChunkOp.ret) = QuadsDue
        /\ Len(lastChunkOp.ret.faces) = Cardinality(QuadsDue)
\* a chunk with water against water and a solid block against water was
\* meshed, and some faces were emitted and some were not
WitnessFaceCulling ==
    /\ lastChunkOp.op = "buildMesh"
    /\ \E v \in Cube, f \in 1 .. 6 :
          BlockAt(v, <<0, 0, 0>>) = WATER /\ BlockAt(v, faceDirections[f]) = WATER
    /\ \E v \in Cube, f \in 1 .. 6 :
          BlockAt(v, <<0, 0, 0>>) \in {STONE, SAND} /\ BlockAt(v, faceDirections[f]) = WATER
    /\ QuadsDue # {}
    /\ QuadsDue # { q \in Cube \X (0 .. 5) : BlockAt(q[1], <<0, 0, 0>>) # AIR }


\* an opaque block: neither Air nor Water
Opaque(blockType) == blockType \notin {AIR, WATER}
\* every voxel of the stand-alone chunk holds the same opaque block type
UniformOpaque ==
    \E t \in BlockTypes :
        Opaque(t) /\ \A v \in Cube : BlockAt(v, <<0, 0, 0>>) = t
\* voxel v has its six neighbours inside the chunk, all of them opaque
Enclosed(v) ==
    \A f \in 1 .. 6 :
        /\ << v[1] + faceDirections[f][1], v[2] + faceDirections[f][2],
              v[3] + faceDirections[f][3] >> \in Cube
        /\ Opaque(BlockAt(v, faceDirections[f]))

\* C17: a chunk whose S^3 voxels all hold the same opaque block type yields
\* exactly 6*S^2 quads, and no quad of a mesh belongs to a voxel whose six
\* neighbours are all in the chunk and opaque.
UniformChunkShell ==
    lastChunkOp.op = "buildMesh" =>
        /\ UniformOpaque =>
              Len(lastChunkOp.ret.faces) = 6 * chunkSize * chunkSize
        /\ \A q \in QuadsOf(lastChunkOp.ret) : ~Enclosed(q[1])
\* a chunk filled with one opaque block type, which has an enclosed voxel,
\* was meshed
WitnessUniformChunk ==
    /\ lastChunkOp.op = "buildMesh"
    /\ UniformOpaque
    /\ \E v \in Cube : Enclosed(v)
    /\ Len(lastChunkOp.ret.faces) > 0


\* the arrays of a mesh of q quads: 12q position components, 16q colour
\* components and 6q indices, quad k giving (4k, 4k+1, 4k+2, 4k, 4k+2, 4k+3)
MeshArraysShaped(mesh) ==
    LET q == Len(mesh.faces)
    IN /\ Len(mesh.positions) = 12 * q
       /\ Len(mesh.colors) = 16 * q
       /\ Len(mesh.indices) = 6 * q
       /\ \A k \in 0 .. (q - 1) :
             SubSeq(mesh.indices, 6 * k + 1, 6 * k + 6)
               = << 4 * k, 4 * k + 1, 4 * k + 2, 4 * k, 4 * k + 2, 4 * k + 3 >>
\* the stand-alone chunk holds what some run of generateTerrain produces
IsTerrain == \E k \in Streams, run \in 1 .. 3 : chunk = Terrains[k][run]

\* C18 (as stated): buildMesh returning q quads produces 12q position
\* components, 16q colour components and 6q indices, the k-th quad
\* contributing (4k, 4k+1, 4k+2, 4k, 4k+2, 4k+3); for a chunk produced by
\* generateTerrain the index array is non-empty.
MeshArraysAnyTerrain ==
    lastChunkOp.op = "buildMesh" =>
        /\ MeshArraysShaped(lastChunkOp.ret)
        /\ IsTerrain => Len(lastChunkOp.ret.indices) > 0
\* C18 (amended): the same arrays; the index array is non-empty for every
\* chunk that holds a block, and generateTerrain on a chunk of the default
\* size 16 always leaves a block.
MeshArraysDefaultTerrain ==
    /\ lastChunkOp.op = "buildMesh" =>
          /\ MeshArraysShaped(lastChunkOp.ret)
          /\ (\E v \in Cube : BlockAt(v, <<0, 0, 0>>) # AIR) =>
                Len(lastChunkOp.ret.indices) > 0
    /\ ~DefaultTerrainCanBeEmpty
\* a generated terrain was meshed into more than one quad
WitnessTerrainMeshed ==
    /\ lastChunkOp.op = "buildMesh"
    /\ IsTerrain
    /\ Len(lastChunkOp.ret.faces) > 1
    /\ Len(lastChunkOp.ret.indices) = 6 * Len(lastChunkOp.ret.faces)


\* C19: buildMesh emits vertex positions in local chunk coordinates without
\* recentring: the four vertices of a face of voxel (x, y, z) have their
\* components in {x, x+1}, {y, y+1} and {z, z+1}, all within [0, S].
\* (Position components are kept in halves.)
PositionsLocal ==
    lastChunkOp.op = "buildMesh" =>
        LET mesh == lastChunkOp.ret
        IN \A i \in DOMAIN mesh.faces, j \in 0 .. 3, axis \in 1 .. 3 :
              LET component == mesh.positions[12 * (i - 1) + 3 * j + axis]
                  local == IF axis = 1 THEN mesh.faces[i].x
                           ELSE IF axis = 2 THEN mesh.faces[i].y
                           ELSE mesh.faces[i].z
              IN /\ component \in {2 * local, 2 * (local + 1)}
                 /\ component \in 0 .. (2 * chunkSize)


\* the block the spec gives at height y of a column of clamped height h in a
\* chunk of edge size: Stone below h-4, Dirt from h-4 to h-2, and on top
\* Sand if h is within 2 of the water level floor(size * 0.3), else Grass
LayerOf(size, h, y) ==
    LET waterLevel == (3 * size) \div 10
    IN IF y < h - 4 THEN STONE
       ELSE IF y < h - 1 THEN DIRT
       ELSE IF h - waterLevel \in -2 .. 2 THEN SAND
       ELSE GRASS

\* C20: before cave carving, every column with clamped height h in [1, S-1]
\* holds Stone at y < h-4, Dirt at h-4 <= y < h-1, and as its top voxel
\* y = h-1 Sand if h is within 2 of the water level floor(S*0.3) and Grass
\* otherwise.
ColumnLayers ==
    lastChunkOp.op = "generateTerrain" =>
        \A size \in {chunkSize, DefaultSize} :
           \A x \in 0 .. (size - 1), z \in 0 .. (size - 1) :
              LET h == HeightMap(size, x, z)
              IN /\ h \in 1 .. (size - 1)
                 /\ \A y \in 0 .. (h - 1) :
                       TerrainFill(size)[BlockIndex(size, x, y, z)]
                         = LayerOf(size, h, y)


\* C21: before cave carving, generateTerrain sets the voxel at (x, y, z) to
\* Water exactly when height(x, z) <= y < waterLevel, with waterLevel =
\* floor(S * 0.3); every voxel at or above both the column height and the
\* water level is Air.
WaterFill ==
    lastChunkOp.op = "generateTerrain" =>
        \A size \in {chunkSize, DefaultSize} :
           LET waterLevel == (3 * size) \div 10
           IN \A x \in 0 .. (size - 1), y \in 0 .. (size - 1), z \in 0 .. (size - 1) :
                 LET h == HeightMap(size, x, z)
                     block == TerrainFill(size)[BlockIndex(size, x, y, z)]
                 IN /\ (block = WATER) <=> (h <= y /\ y < waterLevel)
                    /\ (y >= h /\ y >= waterLevel) => block = AIR


\* the position in the stream at which the last generateTerrain began
LastRunStart == (drawn + 120 - DrawsPerTerrain) % 120

\* C22: cave carving never changes a Water voxel: every voxel that is Water
\* after the terrain and water fill is still Water when generateTerrain
\* returns.
CavesKeepWater ==
    lastChunkOp.op = "generateTerrain" =>
        \A size \in {chunkSize, DefaultSize} :
           \A x \in 0 .. (size - 1), y \in 0 .. (size - 1), z \in 0 .. (size - 1) :
              TerrainFill(size)[BlockIndex(size, x, y, z)] = WATER =>
                 TerrainAt(size, rng, LastRunStart, x, y, z) = WATER


\* C23: after every completed World operation each mesh map entry equals
\* the result of buildMesh on that chunk's current blocks, and each buffer
\* map entry's index count equals the index length of the mesh map entry
\* under the same key.
MeshesFresh ==
    /\ \A key \in DOMAIN chunkMeshes :
          /\ key \in DOMAIN chunks
          /\ chunkMeshes[key].faces = ChunkBuildMesh(chunks[key])
    /\ \A key \in DOMAIN chunkBuffers :
          /\ key \in DOMAIN chunkMeshes
          /\ chunkBuffers[key].indexCount
               = Len(MeshIndices(chunkMeshes[key].faces))


\* the three maps are nested and the render list lies in the chunk map
MapsNested ==
    /\ DOMAIN chunkBuffers \subseteq DOMAIN chunkMeshes
    /\ DOMAIN chunkMeshes \subseteq DOMAIN chunks
    /\ LoadedKeys \subseteq DOMAIN chunks
\* a key that leaves the chunk map does so in updateChunks and is in none
\* of the maps nor in the render list after the call
LeavesByEviction ==
    \A key \in DOMAIN chunks \ DOMAIN chunks' :
        /\ lastOp'.op = "updateChunks"
        /\ key \notin DOMAIN chunkMeshes'
        /\ key \notin DOMAIN chunkBuffers'
        /\ \A i \in DOMAIN loadedChunks' : loadedChunks'[i].key # key

\* C24: in every reachable state keys(buffer map) is a subset of keys(mesh
\* map), keys(mesh map) is a subset of keys(chunk map), and every
\* render-list key is in the chunk map; a coordinate leaves the chunk map
\* only by eviction in updateChunks, which removes it from the chunk, mesh
\* and buffer maps and from the render list within the same call.
MapsNestedAndEvicted == []MapsNested /\ [][LeavesByEviction]_vars
\* the second of two updateChunks calls evicted chunks that had buffers
WitnessEviction ==
    /\ lastOp.op = "updateChunks"
    /\ programInfo # NULL
    /\ ops = 3
    /\ Cardinality(glBuffers) < nextBuffer - 1
    /\ chunkBuffers # EmptyMap


\* the eight neighbour offsets of a chunk
NeighborOffsets == ({-1, 0, 1} \X {-1, 0, 1}) \ { <<0, 0>> }
\* the edited block lies on the border facing the neighbour at offset d
FacesNeighbor(d, bx, bz) ==
    /\ d[1] = -1 => bx = 0
    /\ d[1] = 1 => bx = chunkSize - 1
    /\ d[2] = -1 => bz = 0
    /\ d[2] = 1 => bz = chunkSize - 1

\* C25: setBlock at local (bx,bz) of chunk (cx,cz) rebuilds the mesh of the
\* neighbour (cx+dx,cz+dz) exactly when that neighbour is in the chunk map
\* and bx is 0 for dx = -1 or S-1 for dx = +1 and bz is 0 for dz = -1 or S-1
\* for dz = +1; an interior edit rebuilds no neighbour, at most three
\* neighbours are rebuilt, and an absent neighbour is added to no map.
NeighborsRebuiltOnBorder ==
    [][ lastOp'.op = "setBlock" =>
          LET a == lastOp'.args
              cx == OwnerOf(a[1], chunkSize)
              cz == OwnerOf(a[3], chunkSize)
              bx == LocalOf(a[1], chunkSize)
              bz == LocalOf(a[3], chunkSize)
              keyOf(d) == getChunkKey(cx + d[1], cz + d[2])
              rebuilt(d) == /\ keyOf(d) \in DOMAIN chunkMeshes'
                            /\ chunkMeshes'[keyOf(d)].id >= nextMesh
          IN /\ \A d \in NeighborOffsets :
                  /\ rebuilt(d) <=> (/\ keyOf(d) \in DOMAIN chunks
                                     /\ FacesNeighbor(d, bx, bz))
                  /\ keyOf(d) \notin DOMAIN chunks =>
                        /\ keyOf(d) \notin DOMAIN chunks'
                        /\ keyOf(d) \notin DOMAIN chunkMeshes'
                        /\ keyOf(d) \notin DOMAIN chunkBuffers'
             /\ Cardinality({d \in NeighborOffsets : rebuilt(d)}) <= 3 ]_vars
\* a corner edit of chunk (-1,-1) rebuilt its three loaded neighbours
WitnessCornerEdit ==
    /\ lastOp.op = "setBlock"
    /\ lastOp.args[1] = -1 /\ lastOp.args[3] = -1
    /\ \A key \in {getChunkKey(0, 0), getChunkKey(-1, 0), getChunkKey(0, -1)} :
          /\ key \in DOMAIN chunkMeshes
          /\ chunkMeshes[key].id > chunkMeshes[getChunkKey(-1, -1)].id
    /\ getChunkKey(-2, -1) \notin DOMAIN chunks


\* the keys within render distance R of the chunk that owns the position
KeptSet(cameraPosition, R) ==
    LET c0x == OwnerOf(cameraPosition[1], chunkSize)
        c0z == OwnerOf(cameraPosition[3], chunkSize)
    IN { getChunkKey(c0x + d[1], c0z + d[2]) :
           d \in { e \in (-R .. R) \X (-R .. R) :
                     e[1] * e[1] + e[2] * e[2] <= R * R } }

WorldSetBlockOutOfRangeIgnored ==
    [][ (/\ lastOp'.op = "setBlock"
         /\ (lastOp'.args[2] < 0 \/ lastOp'.args[2] >= chunkSize)) =>
          /\ DOMAIN chunks' = DOMAIN chunks
          /\ \A c \in BlockCoords \cup Cube :
                WorldGetBlock(chunks', c[1], c[2], c[3])
                  = WorldGetBlock(chunks, c[1], c[2], c[3]) ]_vars


\* C28: updateChunks leaves untouched every chunk that is already in the
\* chunk map with a mesh and remains in the kept set: its block data, mesh
\* entry and buffer handles are the same objects; a second updateChunks with
\* the same position and distance generates, meshes, creates and deletes
\* nothing.
UpdateKeepsLoaded ==
    [][ lastOp'.op = "updateChunks" =>
          /\ \A key \in (DOMAIN chunks \cap DOMAIN chunkMeshes)
                          \cap KeptSet(lastOp'.args, renderDistance) :
                /\ key \in DOMAIN chunks' /\ chunks'[key] = chunks[key]
                /\ key \in DOMAIN chunkMeshes'
                /\ chunkMeshes'[key] = chunkMeshes[key]
                /\ key \in DOMAIN chunkBuffers <=> key \in DOMAIN chunkBuffers'
                /\ key \in DOMAIN chunkBuffers =>
                      /\ chunkBuffers'[key] = chunkBuffers[key]
                      /\ HandlesOf(chunkBuffers[key]) \cap glBuffers
                           = HandlesOf(chunkBuffers'[key]) \cap glBuffers'
          /\ (lastOp.op = "updateChunks" /\ lastOp.args = lastOp'.args) =>
                UNCHANGED << chunks, chunkMeshes, chunkBuffers, loadedChunks,
                             glBuffers, nextBuffer, nextMesh, drawn >> ]_vars
\* the update around the second camera kept chunk (0,0) of the first update
\* and loaded chunk (2,0)
WitnessKeptAcrossUpdates ==
    /\ lastOp.op = "updateChunks"
    /\ lastOp.args = << chunkSize, 0, 0 >>
    /\ ops = 3
    /\ getChunkKey(0, 0) \in DOMAIN chunkBuffers
    /\ chunkMeshes[getChunkKey(0, 0)].id <= 5
    /\ getChunkKey(2, 0) \in DOMAIN chunkMeshes
    /\ chunkMeshes[getChunkKey(2, 0)].id > 5


\* the places a quad can be emitted at: one for each pair of adjacent voxels
\* of the chunk and one for each voxel side on the surface of the chunk
FaceSlots(size) == 3 * size * size * (size - 1) + 6 * size * size
\* two adjacent voxels holding a and b both emit the quad between them
BothEmit(a, b) ==
    /\ a # AIR /\ FaceVisible(a, b)
    /\ b # AIR /\ FaceVisible(b, a)
\* the index written at place j of the index array, before the conversion
IndexWritten(j) == FaceIndices(4 * ((j - 1) \div 6))[((j - 1) % 6) + 1]

\* C29: for S = 16 and any assignment of block types buildMesh emits fewer
\* than 65536 vertices, so every index survives the Uint16 conversion
\* without wrapping: no pair of adjacent voxels emits two quads, a mesh has
\* at most one quad per slot, and four vertices per slot of the 16-chunk
\* stay below 65536.
IndicesFitUint16 ==
    /\ \A a \in BlockTypes, b \in BlockTypes : ~BothEmit(a, b)
    /\ lastChunkOp.op = "buildMesh" =>
          /\ Len(lastChunkOp.ret.faces) <= FaceSlots(chunkSize)
          /\ \A j \in DOMAIN lastChunkOp.ret.indices :
                lastChunkOp.ret.indices[j] = IndexWritten(j)
    /\ 4 * FaceSlots(DefaultSize) < 65536
    /\ \A v \in (4 * FaceSlots(DefaultSize) - 4) .. (4 * FaceSlots(DefaultSize) - 1) :
          ToUint16(v) = v
\* the mesh of the stone and water chequerboard fills every slot
WitnessEverySlotFilled ==
    /\ lastChunkOp.op = "buildMesh"
    /\ chunk = Checkered(chunkSize)
    /\ Len(lastChunkOp.ret.faces) = FaceSlots(chunkSize)


\* C30: within each frame of WorldRenderer.render the updateChunks for the
\* current camera position runs to completion before World.render is
\* called, so at every draw the render list is exactly the kept set for
\* that frame's camera position and no draw call uses a chunk evicted in
\* that frame.
FrameDrawsKeptSet ==
    [][ lastOp'.op = "frame" =>
          LET kept == KeptSet(lastOp'.args, renderDistance)
              draws == lastOp'.ret
              evicted == DOMAIN chunks \ DOMAIN chunks'
          IN /\ { loadedChunks'[i].key : i \in DOMAIN loadedChunks' } = kept
             /\ DOMAIN chunks' = kept
             /\ \A j \in DOMAIN draws :
                   /\ draws[j].key \in kept
                   /\ draws[j].key \notin evicted
                   /\ draws[j].buffers = chunkBuffers'[draws[j].key]
                   /\ HandlesOf(draws[j].buffers) \subseteq glBuffers' ]_vars
\* the second frame, with the camera in the next chunk, evicted chunks of
\* the first and drew every chunk of its kept set
WitnessFrameAfterMove ==
    /\ lastOp.op = "frame"
    /\ lastOp.args = << chunkSize, 0, 0 >>
    /\ ops = 2
    /\ nextMesh > 1 + Cardinality(DOMAIN chunks)
    /\ Len(lastOp.ret) = Cardinality(KeptSet(lastOp.args, renderDistance))

=============================================================================
